---- MODULE Spec2Model ----
(***************************************************************************)
(* The LuaJIT 2.0 bytecode dump decoder of format/luajit/luajit.go as a    *)
(* state machine.  The decoder walks the input once through a cursor; the  *)
(* model keeps the cursor, the per-dump context (DumpInfo), the locals of  *)
(* the proto being decoded and the position in the decode.  The input is   *)
(* revealed as the cursor reads it: a read draws the bytes it consumes     *)
(* from the input sets below, the length of the input is fixed at the      *)
(* start, and a byte that PeekBytes has observed is fixed for the read     *)
(* that follows at the same offset.                                        *)
(***************************************************************************)
EXTENDS Integers, Sequences, FiniteSets, TLC

\* longest input, in bytes
MaxInput == 20
\* largest one-byte proto length drawn
MaxLength == 14

(***************************************************************************)
(* uint64.  A 64-bit unsigned value is the set of its set bit positions    *)
(* (bit i has weight 2^i), so that shifts, masks and wrap-around keep      *)
(* their width.                                                            *)
(***************************************************************************)
RECURSIVE Pow2Rec(_)
Pow2Rec(n) == IF n = 0 THEN 1 ELSE 2 * Pow2Rec(n - 1)
Pow2Table == [n \in 0..30 |-> Pow2Rec(n)]
Pow2(n) == Pow2Table[n]

\* the uint64 of a small natural number
U64(n) == {b \in 0..30 : (n \div Pow2(b)) % 2 = 1}

\* a value of 2^30 or more: larger than any offset or count of an input
IsBig(x) == \E b \in x : b >= 30

RECURSIVE SumPow2(_)
SumPow2(x) ==
    IF x = {} THEN 0
    ELSE LET b == CHOOSE c \in x : TRUE IN Pow2(b) + SumPow2(x \ {b})

\* int(x) of a uint64, saturated at 2^30
ToNat(x) == IF IsBig(x) THEN Pow2(30) ELSE SumPow2(x)

\* x << n and x >> n on uint64
Shl(x, n) == {b + n : b \in {c \in x : c + n <= 63}}
Shr(x, n) == {b - n : b \in {c \in x : c >= n}}

RECURSIVE AddFrom(_, _, _, _)
AddFrom(x, y, b, carry) ==
    IF b > 63 THEN {}
    ELSE LET s == (IF b \in x THEN 1 ELSE 0) + (IF b \in y THEN 1 ELSE 0) + carry
         IN  (IF s % 2 = 1 THEN {b} ELSE {}) \cup AddFrom(x, y, b + 1, s \div 2)

\* x + y and x - y on uint64 (modulo 2^64)
Add(x, y) == AddFrom(x, y, 0, 0)
Sub(x, y) == Add(x, Add((0..63) \ y, {0}))

\* i < n for a loop index i and a uint64 count n
NatLt(i, n) == IsBig(n) \/ i < ToNat(n)

(***************************************************************************)
(* u64tof64: the 8 bytes of u in big-endian order, read back big-endian as *)
(* a float64.  A float64 is kept as its IEEE-754 bit pattern.              *)
(***************************************************************************)
PutUint64BE(u) == [k \in 1..8 |-> SumPow2(Shr(u, 8 * (8 - k)) \cap (0..7))]
ReadFloat64BE(buf) == UNION {Shl(U64(buf[k]), 8 * (8 - k)) : k \in 1..8}
u64tof64(u) == [kind |-> "f64", bits |-> ReadFloat64BE(PutUint64BE(u))]

\* the values FieldAnyFn exposes for the integer results
Int64Val(u) == [kind |-> "i64", bits |-> u]
Uint64Val(u) == [kind |-> "u64", bits |-> u]

(***************************************************************************)
(* The cursor's reads.                                                     *)
(***************************************************************************)
\* ULEB128: 7 payload bits per byte, least significant group first
ULEB128(enc) == UNION {Shl(U64(enc[k] % 128), 7 * (k - 1)) : k \in 1..Len(enc)}
ULEB128Len_Short(enc) == Len(enc) - 1
\* the bytes a ULEB128 read consumes
ULEB128Len(enc) == Len(enc)

\* FieldU16 under the active byte order
U16(b0, b1, endian) == IF endian = "big" THEN b0 * 256 + b1 ELSE b0 + b1 * 256

Field(name, size) == [name |-> name, size |-> size]

\* how many of the fields fs, read in order from offset p, end within end
RECURSIVE FitCount(_, _, _)
FitCount(fs, p, end) ==
    IF fs = <<>> THEN 0
    ELSE IF p + Head(fs).size > end THEN 0
    ELSE 1 + FitCount(Tail(fs), p + Head(fs).size, end)

RECURSIVE SizeOf(_, _)
SizeOf(fs, k) == IF k = 0 THEN 0 ELSE fs[k].size + SizeOf(fs, k - 1)

\* reading fs from p in a window ending at end: the fields read before the
\* first one that does not fit, the cursor after them, the offset the last
\* read asked for, and the field that failed
Read(fs, p, end) ==
    LET k == FitCount(fs, p, end)
    IN  [ok     |-> k = Len(fs),
         fields |-> [n \in 1..k |-> fs[n].name],
         pos    |-> p + SizeOf(fs, k),
         need   |-> p + SizeOf(fs, k) + (IF k < Len(fs) THEN fs[k + 1].size ELSE 0),
         fld    |-> IF k < Len(fs) THEN fs[k + 1].name ELSE ""]

Max(a, b) == IF a >= b THEN a ELSE b

Min(a, b) == IF a <= b THEN a ELSE b

(***************************************************************************)
(* The opcode table (opcodes, bcOpSyms): one entry per LuaJIT 2.0 opcode,  *)
(* indexed by the raw opcode byte, each with its operand layout.           *)
(***************************************************************************)
NumOpcodes == 93
\* opcodes with the three-operand layout (a, c, b): arithmetic, CAT, table
\* access, CALLM/CALL, ITERC/ITERN, VARG
OpsABC == (20..36) \cup (54..59) \cup {61, 62, 65, 66, 67}
\* opcodes whose wide operand is a jump: UCLO, ISNEXT, FORI/JFORI, FORL/IFORL,
\* ITERL/IITERL, LOOP/ILOOP, JMP
OpsJump == {48, 68, 73, 74, 75, 76, 78, 79, 81, 82, 84}
HasEntry(op) == op \in 0..(NumOpcodes - 1)
HasD(op) == op \notin OpsABC
IsJump(op) == op \in OpsJump

\* jumpBias.MapUint: u.Actual -= 0x8000 on the uint64 Actual
jumpBias(u) == Sub(u, U64(32768))

(***************************************************************************)
(* The inputs the reads draw from.                                         *)
(***************************************************************************)
Magic == <<27, 76, 74>>
MagicInputs == {Magic, <<27, 76, 75>>, <<0, 76, 74>>, <<74, 76, 27>>}
VersionInputs == {1, 2}
\* flags: 0, be, strip, be+strip, and strip in two bytes (0x82 0x00)
FlagEncodings == {<<0>>, <<1>>, <<2>>, <<3>>, <<130, 0>>}
NameLens == {1, 255}
\* 2^32 as a ULEB128
Enc2p32 == <<128, 128, 128, 128, 16>>
\* proto lengths: 1..MaxLength in one byte, 0 and 7 in two bytes, 2^32
LengthEncodings ==
    {<<n>> : n \in 1..MaxLength} \cup {<<128, 0>>, <<135, 0>>, Enc2p32}
NumuvInputs == {0, 1}
\* numbc, debuglen: 0, 1, 2, 2^32
CountEncodings == {<<0>>, <<1>>, <<2>>, Enc2p32}
\* numkgc, numkn: 0, 1, 2^32
KCountEncodings == {<<0>>, <<1>>, Enc2p32}
\* firstline, numline
LineEncodings == {<<1>>}
\* an opcode of each layout (ISLT: a d, ADDVV: a c b, JMP: a j) and two bytes
\* past the end of the table
OpInputs == {0, 30, 84, 93, 255}
\* the two bytes of a wide operand
OperandPairs == {<<0, 128>>, <<128, 0>>, <<5, 128>>, <<128, 5>>,
                 <<255, 127>>, <<127, 255>>}
\* kgc type tags 0..7 and 2^32
KgcTagEncodings == {<<t>> : t \in 0..7} \cup {Enc2p32}
\* ktabk type tags 0..6 and 2^32
KtabTagEncodings == {<<t>> : t \in 0..6} \cup {Enc2p32}
\* (narray, nhash)
TabCountEncodings == {<<0>>, <<1>>, <<2>>} \X {<<0>>, <<1>>}
\* 0xFFFFFFFF as a ULEB128
EncFFFFFFFF == <<255, 255, 255, 255, 15>>
\* a single varint payload (ktabk int, the hi of a knum)
WordEncodings == {<<0>>, <<1>>, EncFFFFFFFF}
\* (lo, hi) pairs: (1, 0), (0, 1), (0xFFFFFFFF, 1), (2^32, 1)
PairEncodings == {<<<<1>>, <<0>>>>, <<<<0>>, <<1>>>>, <<EncFFFFFFFF, <<1>>>>,
                  <<Enc2p32, <<1>>>>}
\* the imaginary part of a complex
ImagEncodings == {<<<<1>>, <<0>>>>, <<Enc2p32, <<1>>>>}
\* the first value of a knum: 0, 1, 4, 5, 0xFFFFFFFF, 2^33 + 1
KNumLoEncodings == {<<0>>, <<1>>, <<4>>, <<5>>, EncFFFFFFFF,
                    <<129, 128, 128, 128, 32>>}
\* the byte at a proto boundary: the terminator or the first byte of a length
PeekInputs == {0} \cup {e[1] : e \in LengthEncodings}

VARIABLES
    inputLen,   \* length of the input in bytes
    pos,        \* the cursor, in bytes
    hwm,        \* one past the highest input offset a read or peek has reached
    need,       \* one past the highest input offset the last read asked for
    peekAt,     \* offset of the byte PeekBytes observed last (-1: none)
    peekByte,   \* its value
    di,         \* DumpInfo
    Endian,     \* d.Endian
    pc,         \* position in the decode
    err,        \* "none", or the failure that ended the decode
    errField,   \* the field being read when it failed
    limited,    \* inside LimitedFn
    proto,      \* locals of LuaJITDecodeProto
    i,          \* index of the count-driven loop in progress
    tab,        \* narray and nhash of the table constant in progress
    j,          \* index of the karray or khash loop in progress
    ndb,        \* elements of the debug array of this proto (-1: no array)
    nproto,     \* elements of the proto array
    hdr,        \* what the header decode read
    out,        \* what the last step read and exposed
    endByte     \* value of the end field (-1: not read)

vars == <<inputLen, pos, hwm, need, peekAt, peekByte, di, Endian, pc, err, errField,
          limited, proto, i, tab, j, ndb, nproto, hdr, out, endByte>>

NoProto == [afterLen |-> 0, length |-> {}, numuv |-> {}, numkgc |-> {},
            numkn |-> {}, numbc |-> {}, debuglen |-> {}]
NoTab == [narray |-> {}, nhash |-> {}]
NoOut == [op |-> "none"]

Init ==
    /\ inputLen \in 0..MaxInput
    /\ pos = 0 /\ hwm = 0 /\ need = 0 /\ peekAt = -1 /\ peekByte = 0
    /\ di = [Strip |-> FALSE, BigEndian |-> FALSE]
    /\ Endian = "big"
    /\ pc = "header" /\ err = "none" /\ errField = ""
    /\ limited = FALSE /\ proto = NoProto
    /\ i = 0 /\ tab = NoTab /\ j = 0 /\ ndb = -1 /\ nproto = 0
    /\ hdr = [magic |-> <<>>, flags |-> {}, fields |-> <<>>, namelen |-> 0,
              flagsLen |-> 0, end |-> 0]
    /\ out = NoOut
    /\ endByte = -1

LimitedFn_Unbounded(p, n) == inputLen
\* d.LimitedFn(8*int64(length), ...): the end of the window that starts at p
LimitedFn(p, n) == IF IsBig(n) THEN inputLen ELSE Min(inputLen, p + ToNat(n))

\* the end of the bytes the cursor may read
WindowEnd == IF limited THEN LimitedFn(proto.afterLen, proto.length) ELSE inputLen

\* a byte read at offset p is the byte a peek at p observed
Known(p, b) == peekAt = p => b = peekByte

AssertBitBuf_Validate(bs) == TRUE
\* d.AssertBitBuf([]byte{0x1b, 0x4c, 0x4a})
AssertBitBuf(bs) == bs = Magic

StripBit_Be(flags) == 0 \in flags
\* flags&0x2 > 0
StripBit(flags) == 1 \in flags
\* flags&0x1 > 0
BeBit(flags) == 0 \in flags

LuaJITDecodeHeader ==
    /\ pc = "header" /\ err = "none"
    /\ \E magic \in MagicInputs, version \in VersionInputs,
          fl \in FlagEncodings, namelen \in NameLens :
        \E flags \in {ULEB128(fl)} :
        \E r \in {Read(<<Field("magic", 3), Field("version", 1),
                         Field("raw", ULEB128Len(fl))>>
                       \o (IF ~StripBit(flags)
                           THEN <<Field("namelen", 1), Field("name", namelen)>>
                           ELSE <<>>),
                       pos, WindowEnd)} :
        LET strip == StripBit(flags)
            gotMagic == Len(r.fields) >= 1
            bad == gotMagic /\ ~AssertBitBuf(magic)
            gotFlags == ~bad /\ Len(r.fields) >= 3
            ok == r.ok /\ ~bad
        IN  /\ err' = IF bad THEN "assert" ELSE IF r.ok THEN "none" ELSE "eof"
            /\ errField' = IF bad THEN "magic" ELSE r.fld
            /\ pos' = IF bad THEN pos ELSE r.pos
            /\ hwm' = IF bad THEN pos + 3 ELSE IF r.ok THEN r.pos ELSE WindowEnd
            /\ need' = IF bad THEN pos + 3 ELSE r.need
            /\ di' = IF gotFlags
                     THEN [Strip |-> strip, BigEndian |-> BeBit(flags)]
                     ELSE di
            /\ Endian' = IF ok
                         THEN (IF BeBit(flags) THEN "big" ELSE "little")
                         ELSE Endian
            /\ pc' = IF ok THEN "peek" ELSE pc
            /\ hdr' = [magic    |-> SubSeq(magic, 1, Min(3, inputLen - pos)),
                       flags    |-> IF gotFlags THEN flags ELSE {},
                       fields   |-> IF bad THEN <<>> ELSE r.fields,
                       namelen  |-> IF ok /\ ~strip THEN namelen ELSE 0,
                       flagsLen |-> IF gotFlags THEN Len(fl) ELSE 0,
                       end      |-> IF ok THEN r.pos ELSE 0]
            /\ out' = [op |-> "header"]
    /\ UNCHANGED <<inputLen, peekAt, peekByte, limited, proto, i, tab, j, ndb,
                   nproto, endByte>>

PosAfterPeek_Advance(p) == p + 1
\* PeekBytes leaves the cursor where it is
PosAfterPeek(p) == p

\* bytes.Equal(nextByte, []byte{0})
IsTerminator(b) == b = 0

\* one test of the proto loop: nextByte := d.PeekBytes(1)
PeekProto ==
    /\ pc = "peek" /\ err = "none"
    /\ \/ /\ pos + 1 > WindowEnd
          /\ err' = "eof" /\ errField' = "proto"
          /\ hwm' = WindowEnd /\ need' = pos + 1
          /\ UNCHANGED <<pos, peekAt, peekByte, pc>>
       \/ /\ pos + 1 <= WindowEnd
          /\ \E b \in PeekInputs :
                /\ Known(pos, b)
                /\ peekAt' = pos /\ peekByte' = b
                /\ pc' = IF IsTerminator(b) THEN "end" ELSE "proto"
          /\ pos' = PosAfterPeek(pos)
          /\ hwm' = Max(hwm, pos + 1) /\ need' = pos + 1
          /\ UNCHANGED <<err, errField>>
    /\ out' = [op |-> "peek"]
    /\ UNCHANGED <<inputLen, di, Endian, limited, proto, i, tab, j, ndb, nproto,
                   hdr, endByte>>

\* d.FieldU8("end")
DecodeEnd ==
    /\ pc = "end" /\ err = "none"
    /\ \/ /\ pos + 1 > WindowEnd
          /\ err' = "eof" /\ errField' = "end"
          /\ hwm' = WindowEnd /\ need' = pos + 1
          /\ UNCHANGED <<pos, pc, endByte>>
       \/ /\ pos + 1 <= WindowEnd
          /\ \E b \in PeekInputs :
                /\ Known(pos, b)
                /\ endByte' = b
          /\ pos' = pos + 1
          /\ hwm' = Max(hwm, pos + 1) /\ need' = pos + 1
          /\ pc' = "done"
          /\ UNCHANGED <<err, errField>>
    /\ out' = [op |-> "end"]
    /\ UNCHANGED <<inputLen, peekAt, peekByte, di, Endian, limited, proto, i,
                   tab, j, ndb, nproto, hdr>>

\* the values a read draws from the input: all of S when the cursor reaches
\* the field, one placeholder when the decode has failed before it
Draw(S, reached) == IF reached THEN S ELSE {CHOOSE e \in S : TRUE}

\* the outcome of a read r in a window ending at end
ReadResult(r, end) ==
    /\ err' = IF r.ok THEN "none" ELSE "eof"
    /\ errField' = r.fld
    /\ pos' = r.pos
    /\ need' = r.need
    /\ hwm' = IF r.ok THEN Max(hwm, r.pos) ELSE Max(hwm, end)

\* the first n bytes of the phead lie in the proto's window
PHeadFits(n) == pos + n <= WindowEnd

\* LuaJITDecodeProto up to LimitedFn: length := d.FieldULEB128("length")
DecodeProtoLength ==
    /\ pc = "proto" /\ err = "none"
    /\ \E lenc \in {e \in LengthEncodings : Known(pos, e[1])} :
       \E r0 \in {Read(<<Field("length", ULEB128Len(lenc))>>, pos, WindowEnd)} :
        /\ ReadResult(r0, WindowEnd)
        /\ limited' = r0.ok
        /\ proto' = IF r0.ok
                    THEN [NoProto EXCEPT !.afterLen = r0.pos,
                                         !.length = ULEB128(lenc)]
                    ELSE proto
        /\ pc' = IF r0.ok THEN "phead" ELSE pc
    /\ out' = [op |-> "length"]
    /\ i' = 0 /\ ndb' = -1
    /\ UNCHANGED <<inputLen, peekAt, peekByte, di, Endian, tab, j, nproto, hdr,
                   endByte>>

\* the phead struct up to numbc, read inside the window LimitedFn opens
DecodePHead ==
    /\ pc = "phead" /\ err = "none"
    /\ \E uv \in Draw(NumuvInputs, PHeadFits(4)) :
       \E kgc \in Draw(KCountEncodings, PHeadFits(4)) :
       \E kn \in Draw(KCountEncodings, PHeadFits(4 + Len(kgc))) :
       \E bc \in Draw(CountEncodings, PHeadFits(4 + Len(kgc) + Len(kn))) :
       \E r \in {Read(<<Field("flags", 1), Field("numparams", 1),
                        Field("framesize", 1), Field("numuv", 1),
                        Field("numkgc", ULEB128Len(kgc)),
                        Field("numkn", ULEB128Len(kn)),
                        Field("numbc", ULEB128Len(bc))>>, pos, WindowEnd)} :
        /\ ReadResult(r, WindowEnd)
        /\ proto' = IF r.ok
                    THEN [proto EXCEPT
                            !.numuv = U64(uv), !.numkgc = ULEB128(kgc),
                            !.numkn = ULEB128(kn), !.numbc = ULEB128(bc)]
                    ELSE proto
        /\ pc' = IF r.ok THEN "pdebug" ELSE pc
        /\ out' = [op |-> "phead", fields |-> r.fields]
    /\ UNCHANGED <<inputLen, peekAt, peekByte, di, Endian, limited, i, tab, j,
                   ndb, nproto, hdr, endByte>>

\* the end of the phead struct: debuglen only if !di.Strip, firstline and
\* numline only if debuglen != 0
DecodePHeadDebug ==
    /\ pc = "pdebug" /\ err = "none"
    /\ \/ /\ di.Strip
          /\ pc' = "bcins"
          /\ out' = [op |-> "pdebug", fields |-> <<>>]
          /\ UNCHANGED <<pos, hwm, need, err, errField, proto>>
       \/ /\ ~di.Strip
          /\ \E dl \in Draw(CountEncodings, PHeadFits(1)) :
             \E ln \in LineEncodings :
             \E r \in {Read(<<Field("debuglen", ULEB128Len(dl))>>
                             \o (IF ULEB128(dl) # {}
                                 THEN <<Field("firstline", ULEB128Len(ln)),
                                        Field("numline", ULEB128Len(ln))>>
                                 ELSE <<>>),
                             pos, WindowEnd)} :
                /\ ReadResult(r, WindowEnd)
                /\ proto' = IF r.ok
                            THEN [proto EXCEPT !.debuglen = ULEB128(dl)]
                            ELSE proto
                /\ pc' = IF r.ok THEN "bcins" ELSE pc
                /\ out' = [op |-> "pdebug", fields |-> r.fields]
    /\ UNCHANGED <<inputLen, peekAt, peekByte, di, Endian, limited, i, tab, j,
                   ndb, nproto, hdr, endByte>>

\* what the steps inside a proto leave alone
ProtoFrame == <<inputLen, peekAt, peekByte, di, Endian, limited, proto, nproto,
                hdr, endByte>>

\* one iteration of the bcins loop: LuaJITDecodeBCIns
DecodeBCIns ==
    /\ pc = "bcins" /\ err = "none"
    /\ \/ /\ NatLt(i, proto.numbc)
          /\ \E op \in Draw(OpInputs, pos + 1 <= WindowEnd) :
             \E w \in Draw(OperandPairs,
                           HasEntry(op) /\ IsJump(op) /\ pos + 4 <= WindowEnd) :
                \E r1 \in {Read(<<Field("op", 1), Field("a", 1)>>, pos, WindowEnd)} :
                \E r2 \in {Read(IF HasD(op)
                                THEN <<Field(IF IsJump(op) THEN "j" ELSE "d", 2)>>
                                ELSE <<Field("c", 1), Field("b", 1)>>,
                                r1.pos, WindowEnd)} :
                \E raw \in {U16(w[1], w[2], Endian)} :
                    IF ~r1.ok THEN
                        /\ ReadResult(r1, WindowEnd)
                        /\ out' = [op |-> "ins", opcode |-> -1, fields |-> r1.fields]
                        /\ i' = i
                    ELSE IF ~HasEntry(op) THEN
                        \* opcodes[int(op)] past the end of the table
                        /\ err' = "panic" /\ errField' = "op"
                        /\ pos' = r1.pos /\ hwm' = Max(hwm, r1.pos)
                        /\ need' = r1.pos
                        /\ out' = [op |-> "ins", opcode |-> op, fields |-> r1.fields]
                        /\ i' = i
                    ELSE
                        /\ ReadResult(r2, WindowEnd)
                        /\ out' = [op |-> "ins", opcode |-> op,
                                   fields |-> r1.fields \o r2.fields,
                                   raw |-> raw,
                                   shown |-> IF HasD(op) /\ IsJump(op)
                                             THEN jumpBias(U64(raw))
                                             ELSE U64(raw)]
                        /\ i' = IF r2.ok THEN i + 1 ELSE i
          /\ pc' = pc
       \/ /\ ~NatLt(i, proto.numbc)
          /\ pc' = "uvdata" /\ i' = 0
          /\ out' = [op |-> "bcins"]
          /\ UNCHANGED <<pos, hwm, need, err, errField>>
    /\ UNCHANGED <<tab, j, ndb>>
    /\ UNCHANGED ProtoFrame

\* one iteration of the uvdata loop: d.FieldU16("uv")
DecodeUV ==
    /\ pc = "uvdata" /\ err = "none"
    /\ \/ /\ NatLt(i, proto.numuv)
          /\ \E r \in {Read(<<Field("uv", 2)>>, pos, WindowEnd)} :
                 /\ ReadResult(r, WindowEnd)
                 /\ i' = IF r.ok THEN i + 1 ELSE i
          /\ out' = [op |-> "uv"]
          /\ pc' = pc
       \/ /\ ~NatLt(i, proto.numuv)
          /\ pc' = "kgc" /\ i' = 0
          /\ out' = [op |-> "uvdata"]
          /\ UNCHANGED <<pos, hwm, need, err, errField>>
    /\ UNCHANGED <<tab, j, ndb>>
    /\ UNCHANGED ProtoFrame

\* (hi << 32) + lo
Combine(lo, hi) == Add(Shl(hi, 32), lo)

\* one 64-bit value built from two ULEB128 reads
Pair(name, lo, hi, val) ==
    [name |-> name, lo |-> ULEB128(lo), hi |-> ULEB128(hi), val |-> val]

\* the payloads that can follow a ktabk type tag: the fields read and the
\* 64-bit values built
KTabKPayloads(tag) ==
    IF ~IsBig(tag) /\ ToNat(tag) < 5
    THEN CASE ToNat(tag) = 3 ->
                {[fields |-> <<Field("int", ULEB128Len(v))>>, vals |-> <<>>] :
                    v \in WordEncodings}
           [] ToNat(tag) = 4 ->
                {[fields |-> <<Field("num", ULEB128Len(lh[1]) + ULEB128Len(lh[2]))>>,
                  vals |-> <<Pair("num", lh[1], lh[2],
                                  u64tof64(Combine(ULEB128(lh[1]), ULEB128(lh[2]))))>>] :
                    lh \in PairEncodings}
           [] OTHER -> {[fields |-> <<>>, vals |-> <<>>]}
    ELSE {[fields |-> <<Field("str", ToNat(Sub(tag, U64(5))))>>, vals |-> <<>>]}

\* LuaJITDecodeKTabK: the type tag and its payload
KTabKReads ==
    UNION {{[fields |-> <<Field("ktabtype", ULEB128Len(t))>> \o p.fields,
             vals |-> p.vals] : p \in KTabKPayloads(ULEB128(t))} :
           t \in KtabTagEncodings}

\* the payloads that can follow a kgc type tag
KGCPayloads(tag) ==
    IF ~IsBig(tag) /\ ToNat(tag) < 5
    THEN CASE ToNat(tag) = 1 ->
                {[fields |-> <<Field("narray", ULEB128Len(n[1])),
                               Field("nhash", ULEB128Len(n[2]))>>,
                  vals |-> <<>>,
                  tab |-> [narray |-> ULEB128(n[1]), nhash |-> ULEB128(n[2])]] :
                    n \in TabCountEncodings}
           [] ToNat(tag) = 2 ->
                {[fields |-> <<Field("i64", ULEB128Len(lh[1]) + ULEB128Len(lh[2]))>>,
                  vals |-> <<Pair("i64", lh[1], lh[2],
                                  Int64Val(Combine(ULEB128(lh[1]), ULEB128(lh[2]))))>>,
                  tab |-> NoTab] :
                    lh \in PairEncodings}
           [] ToNat(tag) = 3 ->
                {[fields |-> <<Field("u64", ULEB128Len(lh[1]) + ULEB128Len(lh[2]))>>,
                  vals |-> <<Pair("u64", lh[1], lh[2],
                                  Uint64Val(Combine(ULEB128(lh[1]), ULEB128(lh[2]))))>>,
                  tab |-> NoTab] :
                    lh \in PairEncodings}
           [] ToNat(tag) = 4 ->
                {[fields |-> <<Field("real", ULEB128Len(re[1]) + ULEB128Len(re[2])),
                               Field("imag", ULEB128Len(im[1]) + ULEB128Len(im[2]))>>,
                  vals |-> <<Pair("real", re[1], re[2],
                                  u64tof64(Combine(ULEB128(re[1]), ULEB128(re[2])))),
                             Pair("imag", im[1], im[2],
                                  u64tof64(Combine(ULEB128(im[1]), ULEB128(im[2]))))>>,
                  tab |-> NoTab] :
                    re \in PairEncodings,
                    im \in ImagEncodings}
           [] OTHER -> {[fields |-> <<>>, vals |-> <<>>, tab |-> NoTab]}
    ELSE {[fields |-> <<Field("str", ToNat(Sub(tag, U64(5))))>>, vals |-> <<>>,
           tab |-> NoTab]}

\* LuaJITDecodeKGC up to the table's arrays: the type tag and its payload
KGCReads ==
    UNION {{[tag |-> ULEB128(t),
             fields |-> <<Field("type", ULEB128Len(t))>> \o p.fields,
             vals |-> p.vals, tab |-> p.tab] : p \in KGCPayloads(ULEB128(t))} :
           t \in KgcTagEncodings}

\* LuaJITDecodeKNum: lo, and hi when lo is odd
KNumReads ==
    UNION {LET lo == ULEB128(l)
           IN  IF 0 \notin lo
               THEN {[fields |-> <<Field("lo", ULEB128Len(l))>>,
                      lo |-> lo, hi |-> {},
                      val |-> Uint64Val(Shr(lo, 1))]}
               ELSE {[fields |-> <<Field("lo", ULEB128Len(l)),
                                   Field("hi", ULEB128Len(h))>>,
                      lo |-> lo, hi |-> ULEB128(h),
                      val |-> u64tof64(Add(Shl(ULEB128(h), 32), Shr(lo, 1)))] :
                     h \in WordEncodings} :
           l \in KNumLoEncodings}

\* the values of r's fields that were read whole
ValsRead(r, vals) ==
    SelectSeq(vals, LAMBDA v : \E n \in 1..Len(r.fields) : r.fields[n] = v.name)

\* one iteration of the kgc loop: LuaJITDecodeKGC up to the table's arrays
DecodeKGC ==
    /\ pc = "kgc" /\ err = "none"
    /\ \/ /\ NatLt(i, proto.numkgc)
          /\ \E p \in KGCReads :
                \E r \in {Read(p.fields, pos, WindowEnd)} :
                LET isTab == p.tag = {0}
                IN  /\ ReadResult(r, WindowEnd)
                    /\ out' = [op |-> "kgc", tag |-> p.tag, fields |-> r.fields,
                               vals |-> ValsRead(r, p.vals)]
                    /\ tab' = IF r.ok THEN p.tab ELSE tab
                    /\ pc' = IF r.ok /\ isTab THEN "karray" ELSE pc
                    /\ i' = IF r.ok /\ ~isTab THEN i + 1 ELSE i
          /\ j' = 0
       \/ /\ ~NatLt(i, proto.numkgc)
          /\ pc' = "knum" /\ i' = 0
          /\ out' = [op |-> "kgcs"]
          /\ UNCHANGED <<pos, hwm, need, err, errField, tab, j>>
    /\ UNCHANGED ndb
    /\ UNCHANGED ProtoFrame

\* one iteration of the karray loop: one LuaJITDecodeKTabK
DecodeKArray ==
    /\ pc = "karray" /\ err = "none"
    /\ \/ /\ NatLt(j, tab.narray)
          /\ \E k \in KTabKReads :
                \E r \in {Read(k.fields, pos, WindowEnd)} :
                    /\ ReadResult(r, WindowEnd)
                    /\ out' = [op |-> "ktabk", fields |-> r.fields,
                               vals |-> ValsRead(r, k.vals)]
                    /\ j' = IF r.ok THEN j + 1 ELSE j
          /\ pc' = pc
       \/ /\ ~NatLt(j, tab.narray)
          /\ pc' = "khash" /\ j' = 0
          /\ out' = [op |-> "karray"]
          /\ UNCHANGED <<pos, hwm, need, err, errField>>
    /\ UNCHANGED <<i, tab, ndb>>
    /\ UNCHANGED ProtoFrame

\* one iteration of the khash loop: the key and the value LuaJITDecodeKTabK;
\* after the last one LuaJITDecodeKGC returns to the kgc loop
DecodeKHash ==
    /\ pc = "khash" /\ err = "none"
    /\ \/ /\ NatLt(j, tab.nhash)
          /\ \E k \in KTabKReads, v \in KTabKReads :
                \E rk \in {Read(k.fields, pos, WindowEnd)} :
                \E rv \in {Read(v.fields, rk.pos, WindowEnd)} :
                    /\ ReadResult(IF rk.ok THEN rv ELSE rk, WindowEnd)
                    /\ out' = [op |-> "khash",
                               fields |-> IF rk.ok THEN rk.fields \o rv.fields
                                          ELSE rk.fields,
                               vals |-> ValsRead(rk, k.vals)
                                        \o (IF rk.ok THEN ValsRead(rv, v.vals)
                                            ELSE <<>>)]
                    /\ j' = IF rk.ok /\ rv.ok THEN j + 1 ELSE j
          /\ pc' = pc /\ i' = i /\ tab' = tab
       \/ /\ ~NatLt(j, tab.nhash)
          /\ pc' = "kgc" /\ i' = i + 1 /\ j' = 0 /\ tab' = NoTab
          /\ out' = [op |-> "ktab"]
          /\ UNCHANGED <<pos, hwm, need, err, errField>>
    /\ UNCHANGED ndb
    /\ UNCHANGED ProtoFrame

\* one iteration of the knum loop: LuaJITDecodeKNum
DecodeKNum ==
    /\ pc = "knum" /\ err = "none"
    /\ \/ /\ NatLt(i, proto.numkn)
          /\ \E k \in KNumReads :
                \E r \in {Read(k.fields, pos, WindowEnd)} :
                    /\ ReadResult(r, WindowEnd)
                    /\ out' = IF r.ok
                              THEN [op |-> "knum", lo |-> k.lo, hi |-> k.hi,
                                    reads |-> Len(r.fields), val |-> k.val]
                              ELSE [op |-> "knum", reads |-> Len(r.fields)]
                    /\ i' = IF r.ok THEN i + 1 ELSE i
          /\ pc' = pc
       \/ /\ ~NatLt(i, proto.numkn)
          /\ pc' = "debug" /\ i' = 0
          /\ out' = [op |-> "knums"]
          /\ UNCHANGED <<pos, hwm, need, err, errField>>
    /\ UNCHANGED <<tab, j, ndb>>
    /\ UNCHANGED ProtoFrame

\* the debug array, only if !di.Strip: one d.FieldU8("db") per iteration
DecodeDebug ==
    /\ pc = "debug" /\ err = "none"
    /\ \/ /\ di.Strip
          /\ pc' = "ret"
          /\ out' = [op |-> "nodebug"]
          /\ UNCHANGED <<pos, hwm, need, err, errField, i, ndb>>
       \/ /\ ~di.Strip /\ NatLt(i, proto.debuglen)
          /\ \E r \in {Read(<<Field("db", 1)>>, pos, WindowEnd)} :
                 /\ ReadResult(r, WindowEnd)
                 /\ i' = IF r.ok THEN i + 1 ELSE i
                 /\ ndb' = IF r.ok THEN i + 1 ELSE i
          /\ out' = [op |-> "db"]
          /\ pc' = pc
       \/ /\ ~di.Strip /\ ~NatLt(i, proto.debuglen)
          /\ pc' = "ret" /\ ndb' = i
          /\ out' = [op |-> "debug"]
          /\ UNCHANGED <<pos, hwm, need, err, errField, i>>
    /\ UNCHANGED <<tab, j>>
    /\ UNCHANGED ProtoFrame

\* LimitedFn and LuaJITDecodeProto return: the cursor stays after the last
\* byte decoded, and the proto joins the proto array
ProtoReturn ==
    /\ pc = "ret" /\ err = "none"
    /\ limited' = FALSE
    /\ nproto' = nproto + 1
    /\ pc' = "peek"
    /\ out' = [op |-> "proto", consumed |-> pos - proto.afterLen]
    /\ UNCHANGED <<inputLen, pos, hwm, need, peekAt, peekByte, di, Endian, err,
                   errField, proto, i, tab, j, ndb, hdr, endByte>>

Next ==
    \/ LuaJITDecodeHeader
    \/ PeekProto
    \/ DecodeProtoLength
    \/ DecodePHead
    \/ DecodePHeadDebug
    \/ DecodeBCIns
    \/ DecodeUV
    \/ DecodeKGC
    \/ DecodeKArray
    \/ DecodeKHash
    \/ DecodeKNum
    \/ DecodeDebug
    \/ ProtoReturn
    \/ DecodeEnd

Spec == Init /\ [][Next]_vars

\* the decode runs to completion: a single synchronous pass
FairSpec == Spec /\ WF_vars(Next)

\* the decode has returned, with or without an error
Halted == pc = "done" \/ err # "none"

(***************************************************************************)
(* The claims.                                                             *)
(***************************************************************************)
\* the offset just after the length field plus length: the proto's boundary
Boundary == proto.afterLen + ToNat(proto.length)

\* the names in a sequence of field names
Names(fs) == {fs[n] : n \in 1..Len(fs)}

\* C1: a proto decode returns successfully only when its fields consumed
\* exactly length bytes: on return the cursor is at the offset just after
\* the length field plus length.
C1_ExactLength ==
    out.op = "proto" => (out.consumed = ToNat(proto.length) /\ pos = Boundary)

C4_MagicChecked ==
    (out.op # "none" /\ hdr.magic # Magic) =>
        /\ err \in {"assert", "eof"} /\ errField = "magic"
        /\ (Len(hdr.magic) = 3 => err = "assert")
        /\ hdr.fields = <<>> /\ pos = 0 /\ hwm <= 3
        /\ pc = "header" /\ nproto = 0 /\ endByte = -1

\* C4 witness: a full-length input with a wrong magic was refused
C4_Witness ==
    err = "assert" /\ Len(hdr.magic) = 3 /\ hdr.magic # Magic /\ inputLen = MaxInput

\* C5: an opcode byte with no entry in the opcode table ends the
\* instruction decode in the UnknownOpcode decode error; an opcode with an
\* entry consumes exactly 4 bytes (op, a, then one 2-byte operand or c, b).
C5_OpcodeLookupChecked ==
    (out.op = "ins" /\ out.opcode # -1) =>
        IF ~HasEntry(out.opcode)
        THEN err = "unknown_opcode"
        ELSE err = "none" =>
                /\ out.fields \in {<<"op", "a", "d">>, <<"op", "a", "j">>,
                                   <<"op", "a", "c", "b">>}
                /\ need = pos

\* a scalar.Uint holding u has the numeric value v
UintValueIs(u, v) == v >= 0 /\ u = U64(v)

\* C6: the value exposed for the wide operand r of a jump instruction is
\* the signed quantity r - 0x8000.
C6_JumpBiasSigned ==
    (out.op = "ins" /\ err = "none" /\ "j" \in Names(out.fields)) =>
        UintValueIs(out.shown, out.raw - 32768)

\* C7: a knum whose first value lo is even reads one varint and is the
\* unsigned integer lo >> 1; one whose lo is odd reads one more varint hi
\* and is the double of bit pattern hi<<32 | (lo >> 1).
C7_KNumParity ==
    (out.op = "knum" /\ err = "none") =>
        IF 0 \notin out.lo
        THEN out.reads = 1 /\ out.val = [kind |-> "u64", bits |-> Shr(out.lo, 1)]
        ELSE /\ out.reads = 2
             /\ out.val = [kind |-> "f64",
                           bits |-> Shl(out.hi, 32) \cup Shr(out.lo, 1)]

\* the kind of value each 64-bit field exposes
KindOf(name) == IF name = "i64" THEN "i64" ELSE IF name = "u64" THEN "u64" ELSE "f64"

\* C8: every (lo, hi) pair read for a kgc i64, u64, complex part or ktabk
\* num gives the 64-bit pattern hi<<32 | lo.
C8_PairCombination ==
    (out.op \in {"kgc", "ktabk", "khash"}) =>
        \A n \in 1..Len(out.vals) :
            out.vals[n].val = [kind |-> KindOf(out.vals[n].name),
                               bits |-> Shl(out.vals[n].hi, 32) \cup out.vals[n].lo]

\* the fields read by the header and by each phead follow the strip bit
StripFields ==
    /\ Len(hdr.fields) >= 3 => di.Strip = (1 \in hdr.flags)
    /\ pc # "header" =>
          IF di.Strip
          THEN /\ hdr.fields = <<"magic", "version", "raw">>
               /\ hdr.end = 4 + hdr.flagsLen
          ELSE /\ hdr.fields = <<"magic", "version", "raw", "namelen", "name">>
               /\ hdr.end = 4 + hdr.flagsLen + 1 + hdr.namelen
    /\ (out.op = "phead" /\ err = "none") => Len(out.fields) = 7
    /\ (out.op = "pdebug" /\ err = "none") =>
          /\ "debuglen" \in Names(out.fields) <=> ~di.Strip
          /\ "firstline" \in Names(out.fields) <=> (~di.Strip /\ proto.debuglen # {})
          /\ "numline" \in Names(out.fields) <=> (~di.Strip /\ proto.debuglen # {})
          /\ di.Strip => (proto.debuglen = {} /\ out.fields = <<>>)
    /\ pc = "ret" => ndb = (IF di.Strip THEN -1 ELSE ToNat(proto.debuglen))
    /\ out.op = "db" => ~di.Strip

\* C9: the strip value the header records (bit 0x02 of the flags) is
\* written once and never changes, and it decides the presence of namelen
\* and name, of debuglen, firstline and numline, and of the debug array of
\* exactly debuglen bytes.
C9_StripGoverns ==
    [][(pc # "header" => di' = di) /\ StripFields']_vars

\* C9 witness: a proto of a dump that is not stripped has read its debug
\* array of two bytes
C9_Witness ==
    pc = "ret" /\ ~di.Strip /\ ndb = 2 /\ proto.debuglen = U64(2)

\* an iteration of the top-level proto loop or of a count-driven loop is
\* about to run
LoopBody ==
    /\ err = "none"
    /\ \/ pc = "proto"
       \/ pc = "bcins" /\ NatLt(i, proto.numbc)
       \/ pc = "uvdata" /\ NatLt(i, proto.numuv)
       \/ pc = "kgc" /\ NatLt(i, proto.numkgc)
       \/ pc = "karray" /\ NatLt(j, tab.narray)
       \/ pc = "khash" /\ NatLt(j, tab.nhash)
       \/ pc = "knum" /\ NatLt(i, proto.numkn)
       \/ pc = "debug" /\ ~di.Strip /\ NatLt(i, proto.debuglen)

\* C10: the decode of every input ends, with success or an error, and
\* every iteration of the proto loop and of the count-driven loops
\* consumes at least one byte or fails.
C10_Terminates ==
    /\ <>Halted
    /\ [][LoopBody => (err' # "none" \/ pos' > pos)]_vars

\* C10 witness: the kgc loop over a count of 2^32 has run two iterations
\* and the decode has ended at the end of the input
C10_Witness ==
    /\ Halted /\ limited /\ pc = "kgc"
    /\ IsBig(proto.numkgc) /\ i >= 2 /\ pos = inputLen

====
